---------------------------- MODULE Spec2Model ----------------------------
(***************************************************************************)
(* Endpoint responder console: the command registry, the capability and    *)
(* privilege gate, and the argument validators of                          *)
(* console_commands_definition.ts.                                         *)
(*                                                                         *)
(* Representation.  A string is a sequence of text atoms: the characters   *)
(* of a user-entered value ("1", "e", " " ...), or a whole translated      *)
(* phrase for a message.  String concatenation is \o.  A result of type    *)
(* `true | string` is the record True or Message(text).                    *)
(***************************************************************************)
EXTENDS Integers, Sequences, FiniteSets, TLC

VARIABLES
    \* ---- session inputs (externally supplied)
    endpointAgentId,        \* getEndpointConsoleCommands' endpointAgentId
    endpointCapabilities,   \* the host's capability list
    endpointPrivileges,     \* the caller's EndpointPrivileges
    experimentalFeatures,   \* ExperimentalFeaturesService.get()
    \* ---- registry and command gate
    consoleCommands,        \* the list returned by getEndpointConsoleCommands
    enteredCommand,         \* the Command last handed to its validate()
    validateResult,         \* what that validate() returned
    gateCall,               \* a call of getRbacControl or the validator on
                            \* a command name, and what it returned
    \* ---- argument validation
    validatorName,          \* the argument validator last called
    argData,                \* the ParsedArgData it was called with
    validatorResult,        \* what it returned
    parsedInput,            \* the parsed command line last validated
    argumentsResult,        \* what validateArguments returned for it
    \* ---- detection rules (update_actions.ts)
    rules,                  \* the stored rules
    connectors,             \* the ids of the created webhook actions
    ruleRequest,            \* the request last made
    ruleResponse,           \* the rule it returned
    \* ---- cloud-defend policy editor (ControlGeneralView)
    policy,                 \* the policy the view is rendered with
    onChangeCalls,          \* onChange.mock.calls.length
    lastEvent,              \* the user event last delivered to the view
    \* ---- SLO edit form, tags field (SloEditFormDescriptionSection)
    tags,                   \* field.value of the tags field
    tagsEvent               \* the combo box handler last run, and whether
                            \* it called field.onChange

sessionVars  == <<endpointAgentId, endpointCapabilities, endpointPrivileges,
                  experimentalFeatures>>
registryVars == <<consoleCommands, enteredCommand, validateResult,
                  gateCall>>
argVars      == <<validatorName, argData, validatorResult, parsedInput,
                  argumentsResult>>
ruleVars     == <<rules, connectors, ruleRequest, ruleResponse>>
editorVars   == <<policy, onChangeCalls, lastEvent>>
sloVars      == <<tags, tagsEvent>>
vars         == <<sessionVars, registryVars, argVars, ruleVars, editorVars,
                  sloVars>>

\* JavaScript `undefined`, for a variable that holds no value yet.
Undefined == [undefined |-> TRUE]

(***************************************************************************)
(* Results of type `true | string`.                                        *)
(***************************************************************************)
True == [isTrue |-> TRUE, text |-> <<>>]
Message(text) == [isTrue |-> FALSE, text |-> text]
\* a call that ends in a thrown error has no result of that type
Thrown(error) == [thrown |-> error]

\* ---- bounds of the model
MaxLen == 4          \* longest exhaustively enumerated argument value
MaxArgs == 2         \* most arguments on one entered command line

(***************************************************************************)
(* Strings                                                                 *)
(***************************************************************************)
Digits == <<"0", "1", "2", "3", "4", "5", "6", "7", "8", "9">>
HexLetters == <<"a", "b", "c", "d", "e", "f">>

IndexOf(seq, c) ==
    IF \E i \in 1..Len(seq) : seq[i] = c
    THEN CHOOSE i \in 1..Len(seq) : seq[i] = c
    ELSE 0

IsDigit(c) == IndexOf(Digits, c) > 0
DigitValue(c) == IndexOf(Digits, c) - 1
\* value of a hexadecimal digit, -1 when c is none
HexValue(c) ==
    IF IsDigit(c) THEN DigitValue(c)
    ELSE IF IndexOf(HexLetters, c) > 0 THEN 9 + IndexOf(HexLetters, c)
    ELSE -1

IsWhiteSpace(c) == c = " "

RECURSIVE TrimStart(_)
TrimStart(s) ==
    IF s # <<>> /\ IsWhiteSpace(Head(s)) THEN TrimStart(Tail(s)) ELSE s

RECURSIVE TrimEnd(_)
TrimEnd(s) ==
    IF s # <<>> /\ IsWhiteSpace(s[Len(s)])
    THEN TrimEnd(SubSeq(s, 1, Len(s) - 1))
    ELSE s

\* String.prototype.trim
Trim(s) == TrimEnd(TrimStart(s))

AllDigits(s) == \A i \in 1..Len(s) : IsDigit(s[i])

\* the value of a run of decimal digits (at most 9 of them here)
RECURSIVE DecimalValue(_)
DecimalValue(s) ==
    IF s = <<>> THEN 0
    ELSE 10 * DecimalValue(SubSeq(s, 1, Len(s) - 1)) + DigitValue(s[Len(s)])

RECURSIVE StripLeadingZeros(_)
StripLeadingZeros(s) ==
    IF s # <<>> /\ Head(s) = "0" THEN StripLeadingZeros(Tail(s)) ELSE s

RECURSIVE TrailingZeros(_)
TrailingZeros(s) ==
    IF s # <<>> /\ s[Len(s)] = "0"
    THEN 1 + TrailingZeros(SubSeq(s, 1, Len(s) - 1))
    ELSE 0

Zeros(n) == [i \in 1..n |-> "0"]


(***************************************************************************)
(* Numbers.  A Number is NaN, or +-Infinity, or the exact decimal value    *)
(* sign * digits * 10^exp10, digits having neither leading nor trailing    *)
(* zeros (<<>> for zero).  The conversion of a decimal literal to a double *)
(* is exact for the integer-or-not and the safe-or-not tests as long as    *)
(* the literal has fewer than 16 significant digits, which the bounds      *)
(* guarantee.                                                              *)
(***************************************************************************)
NaN == [kind |-> "NaN", negative |-> FALSE, digits |-> <<>>, exp10 |-> 0]
Infinite(neg) ==
    [kind |-> "Infinity", negative |-> neg, digits |-> <<>>, exp10 |-> 0]
Finite(neg, digits, exp10) ==
    [kind |-> "finite", negative |-> neg, digits |-> digits, exp10 |-> exp10]

RECURSIVE LeadingDigits(_)
LeadingDigits(s) ==
    IF s # <<>> /\ IsDigit(Head(s)) THEN 1 + LeadingDigits(Tail(s)) ELSE 0

\* the decimal digits of a natural number, most significant first
RECURSIVE ToDigits(_)
ToDigits(n) ==
    IF n = 0 THEN <<>> ELSE Append(ToDigits(n \div 10), Digits[(n % 10) + 1])

\* Finite() of the mantissa digits m (any zeros) scaled by 10^e
Normalise(neg, m, e) ==
    LET mant == StripLeadingZeros(m)
        z == TrailingZeros(mant)
    IN IF mant = <<>> THEN Finite(neg, <<>>, 0)
       ELSE Finite(neg, SubSeq(mant, 1, Len(mant) - z), e + z)

\* the digits of s in the given radix (2, 8 or 16), -1 when s is no numeral
RECURSIVE RadixValue(_, _)
RadixValue(s, radix) ==
    IF s = <<>> THEN 0
    ELSE LET d == HexValue(s[Len(s)])
             rest == RadixValue(SubSeq(s, 1, Len(s) - 1), radix)
         IN IF d < 0 \/ d >= radix \/ rest < 0 THEN -1 ELSE radix * rest + d

\* StrUnsignedDecimalLiteral, with the sign already read
StrDecimalLiteral(neg, u) ==
    LET n1 == LeadingDigits(u)
        int == SubSeq(u, 1, n1)
        r1 == SubSeq(u, n1 + 1, Len(u))
        hasDot == r1 # <<>> /\ Head(r1) = "."
        r2 == IF hasDot THEN Tail(r1) ELSE r1
        n2 == IF hasDot THEN LeadingDigits(r2) ELSE 0
        frac == SubSeq(r2, 1, n2)
        r3 == SubSeq(r2, n2 + 1, Len(r2))
        hasExp == r3 # <<>> /\ Head(r3) \in {"e", "E"}
        r4 == IF hasExp THEN Tail(r3) ELSE r3
        hasExpSign == hasExp /\ r4 # <<>> /\ Head(r4) \in {"+", "-"}
        expNeg == hasExpSign /\ Head(r4) = "-"
        r5 == IF hasExpSign THEN Tail(r4) ELSE r4
        wellFormed ==
            /\ n1 + n2 >= 1
            /\ IF hasExp THEN r5 # <<>> /\ AllDigits(r5) ELSE r3 = <<>>
        e == IF hasExp
             THEN IF expNeg THEN 0 - DecimalValue(r5) ELSE DecimalValue(r5)
             ELSE 0
    IN IF u = <<"I", "n", "f", "i", "n", "i", "t", "y">> THEN Infinite(neg)
       ELSE IF ~wellFormed THEN NaN
       ELSE Normalise(neg, int \o frac, e - n2)

\* StringToNumber: Number(s) of a string s
StringToNumber(s) ==
    LET t == Trim(s)
        radix == IF Len(t) < 2 \/ t[1] # "0" THEN 0
                 ELSE IF t[2] \in {"x", "X"} THEN 16
                 ELSE IF t[2] \in {"o", "O"} THEN 8
                 ELSE IF t[2] \in {"b", "B"} THEN 2
                 ELSE 0
    IN IF t = <<>> THEN Finite(FALSE, <<>>, 0)
       ELSE IF radix # 0
       THEN LET v == RadixValue(SubSeq(t, 3, Len(t)), radix)
            IN IF Len(t) = 2 \/ v < 0 THEN NaN
               ELSE Normalise(FALSE, ToDigits(v), 0)
       ELSE IF Head(t) \in {"+", "-"}
       THEN StrDecimalLiteral(Head(t) = "-", Tail(t))
       ELSE StrDecimalLiteral(FALSE, t)

\* Number.MAX_SAFE_INTEGER = 2^53 - 1 = 9007199254740991
MaxSafeDigits ==
    <<"9", "0", "0", "7", "1", "9", "9", "2", "5", "4", "7", "4", "0", "9", "9", "1">>

\* a <= b for two digit strings of the same length
DigitsLE(a, b) ==
    \/ a = b
    \/ \E i \in 1..Len(a) :
          /\ \A j \in 1..(i - 1) : a[j] = b[j]
          /\ DigitValue(a[i]) < DigitValue(b[i])

IsInteger(n) == n.kind = "finite" /\ (n.digits = <<>> \/ n.exp10 >= 0)

\* Number.isSafeInteger
IsSafeInteger(n) ==
    /\ IsInteger(n)
    /\ LET len == Len(n.digits) + n.exp10
       IN \/ len < Len(MaxSafeDigits)
          \/ /\ len = Len(MaxSafeDigits)
             /\ DigitsLE(n.digits \o Zeros(n.exp10), MaxSafeDigits)

\* n > 0
IsPositive(n) ==
    \/ n.kind = "Infinity" /\ ~n.negative
    \/ n.kind = "finite" /\ ~n.negative /\ n.digits # <<>>

(***************************************************************************)
(* ParsedArgData: the values given to one argument, each a string or (for  *)
(* an argument entered without a value) the boolean true; or undefined     *)
(* when the argument was not entered.                                      *)
(***************************************************************************)
StringValue(s) == [type |-> "string", value |-> s]
BooleanTrue == [type |-> "boolean", value |-> <<"t", "r", "u", "e">>]
ArgData(values) == [isUndefined |-> FALSE, values |-> values]
UndefinedArgData == [isUndefined |-> TRUE, values |-> <<>>]

\* Array.prototype.join(",") of the values' string forms
RECURSIVE Join(_)
Join(values) ==
    IF values = <<>> THEN <<>>
    ELSE IF Len(values) = 1 THEN values[1].value
    ELSE values[1].value \o <<",">> \o Join(Tail(values))

\* String(argData)
String(a) ==
    IF a.isUndefined
    THEN <<"u", "n", "d", "e", "f", "i", "n", "e", "d">>
    ELSE Join(a.values)

\* Number(argData)
Number(a) == IF a.isUndefined THEN NaN ELSE StringToNumber(String(a))

(***************************************************************************)
(* Translated messages (each one text atom).                               *)
(***************************************************************************)
ARGUMENT_CANNOT_BE_EMPTY == <<"Argument cannot be empty">>
INVALID_PID ==
    <<"Argument must be a positive number representing the PID of a process">>
INVALID_EXECUTE_TIMEOUT ==
    <<"Argument must be a string with a positive integer value followed by a unit of time (h for hours, m for minutes, s for seconds). Example: 37m.">>
UPGRADE_ENDPOINT_FOR_RESPONDER == <<"UPGRADE_ENDPOINT_FOR_RESPONDER">>
INSUFFICIENT_PRIVILEGES_FOR_COMMAND == <<"INSUFFICIENT_PRIVILEGES_FOR_COMMAND">>

(***************************************************************************)
(* Argument validators                                                     *)
(***************************************************************************)
\* a variant that reads argData.length without optional chaining
emptyArgumentValidatorNoChaining(a) ==
    IF a.isUndefined THEN Thrown("TypeError")
    ELSE IF /\ Len(a.values) > 0
            /\ a.values[1].type = "string"
            /\ Len(Trim(a.values[1].value)) > 0
    THEN True
    ELSE Message(ARGUMENT_CANNOT_BE_EMPTY)

\* a variant that tests the untrimmed length
emptyArgumentValidatorNoTrim(a) ==
    IF /\ ~a.isUndefined
       /\ Len(a.values) > 0
       /\ a.values[1].type = "string"
       /\ Len(a.values[1].value) > 0
    THEN True
    ELSE Message(ARGUMENT_CANNOT_BE_EMPTY)

emptyArgumentValidator(a) ==
    IF /\ ~a.isUndefined
       /\ Len(a.values) > 0
       /\ a.values[1].type = "string"
       /\ Len(Trim(a.values[1].value)) > 0
    THEN True
    ELSE Message(ARGUMENT_CANNOT_BE_EMPTY)

\* a variant without the `> 0` test
pidValidatorNoSign(a) ==
    LET emptyResult == emptyArgumentValidator(a)
    IN IF emptyResult # True THEN emptyResult
       ELSE IF IsSafeInteger(Number(a)) THEN True
       ELSE Message(INVALID_PID)

\* a variant that tests the number before the empty check
pidValidatorNumberFirst(a) ==
    IF ~(IsSafeInteger(Number(a)) /\ IsPositive(Number(a)))
    THEN Message(INVALID_PID)
    ELSE emptyArgumentValidator(a)

pidValidator(a) ==
    LET emptyResult == emptyArgumentValidator(a)
    IN IF emptyResult # True THEN emptyResult
       ELSE IF IsSafeInteger(Number(a)) /\ IsPositive(Number(a)) THEN True
       ELSE Message(INVALID_PID)

\* utils.validateUnitOfTime: <positive integer><unit>, unit one of h, m, s
validateUnitOfTime(value) ==
    /\ Len(value) >= 2
    /\ value[Len(value)] \in {"h", "m", "s"}
    /\ LET number == SubSeq(value, 1, Len(value) - 1)
       IN AllDigits(number) /\ StripLeadingZeros(number) # <<>>

\* a variant that validates the untrimmed value
executeTimeoutValidatorNoTrim(a) ==
    IF Len(Trim(String(a))) > 0 /\ validateUnitOfTime(String(a))
    THEN True
    ELSE Message(INVALID_EXECUTE_TIMEOUT)

executeTimeoutValidator(a) ==
    IF Len(Trim(String(a))) > 0 /\ validateUnitOfTime(Trim(String(a)))
    THEN True
    ELSE Message(INVALID_EXECUTE_TIMEOUT)

\* call of an argument definition's `validate` by name
CallValidator(name, a) ==
    CASE name = "emptyArgumentValidator" -> emptyArgumentValidator(a)
      [] name = "pidValidator" -> pidValidator(a)
      [] name = "executeTimeoutValidator" -> executeTimeoutValidator(a)

(***************************************************************************)
(* Capabilities and privileges                                             *)
(***************************************************************************)
\* the capability tags and privilege flags the command map names
EndpointCapabilities ==
    {"isolation", "kill_process", "suspend_process", "running_processes",
     "get_file", "execute"}
PrivilegeNames ==
    {"canIsolateHost", "canUnIsolateHost", "canKillProcess",
     "canSuspendProcess", "canGetRunningProcesses", "canWriteFileOperations",
     "canWriteExecuteOperations"}

\* a variant in which release tests isolate's privilege
commandToCapabilitiesPrivilegesMapShared ==
    "isolate" :> [capability |-> "isolation", privilege |-> "canIsolateHost"]
    @@ "release" :>
        [capability |-> "isolation", privilege |-> "canIsolateHost"]
    @@ "kill-process" :>
        [capability |-> "kill_process", privilege |-> "canKillProcess"]
    @@ "suspend-process" :>
        [capability |-> "suspend_process", privilege |-> "canSuspendProcess"]
    @@ "processes" :>
        [capability |-> "running_processes",
         privilege |-> "canGetRunningProcesses"]
    @@ "get-file" :>
        [capability |-> "get_file", privilege |-> "canWriteFileOperations"]
    @@ "execute" :>
        [capability |-> "execute", privilege |-> "canWriteExecuteOperations"]

\* privilege names the flag of EndpointPrivileges the predicate returns
commandToCapabilitiesPrivilegesMap ==
    "isolate" :> [capability |-> "isolation", privilege |-> "canIsolateHost"]
    @@ "release" :>
        [capability |-> "isolation", privilege |-> "canUnIsolateHost"]
    @@ "kill-process" :>
        [capability |-> "kill_process", privilege |-> "canKillProcess"]
    @@ "suspend-process" :>
        [capability |-> "suspend_process", privilege |-> "canSuspendProcess"]
    @@ "processes" :>
        [capability |-> "running_processes",
         privilege |-> "canGetRunningProcesses"]
    @@ "get-file" :>
        [capability |-> "get_file", privilege |-> "canWriteFileOperations"]
    @@ "execute" :>
        [capability |-> "execute", privilege |-> "canWriteExecuteOperations"]

\* a variant that grants every command of the map
getRbacControlAlways(commandName, privileges) ==
    commandName \in DOMAIN commandToCapabilitiesPrivilegesMap

\* a variant that lets a command without an entry pass
getRbacControlUnmappedAllowed(commandName, privileges) ==
    IF commandName \in DOMAIN commandToCapabilitiesPrivilegesMap
    THEN privileges[commandToCapabilitiesPrivilegesMap[commandName].privilege]
    ELSE TRUE

getRbacControl(commandName, privileges) ==
    IF commandName \in DOMAIN commandToCapabilitiesPrivilegesMap
    THEN privileges[commandToCapabilitiesPrivilegesMap[commandName].privilege]
    ELSE FALSE

\* variants of capabilitiesAndPrivilegesValidator with one slip each
capabilitiesAndPrivilegesValidatorByName(command) ==
    LET privileges == command.commandDefinition.meta.privileges
        endpointCaps == command.commandDefinition.meta.capabilities
        commandName == command.commandDefinition.name
        known == commandName \in DOMAIN commandToCapabilitiesPrivilegesMap
        e1 == IF ~known \/ commandName \notin endpointCaps
              THEN UPGRADE_ENDPOINT_FOR_RESPONDER ELSE <<>>
        e2 == IF getRbacControl(commandName, privileges) # TRUE
              THEN e1 \o INSUFFICIENT_PRIVILEGES_FOR_COMMAND ELSE e1
    IN IF Len(e2) > 0 THEN Message(e2) ELSE True

capabilitiesAndPrivilegesValidatorSwapped(command) ==
    LET privileges == command.commandDefinition.meta.privileges
        endpointCaps == command.commandDefinition.meta.capabilities
        commandName == command.commandDefinition.name
        known == commandName \in DOMAIN commandToCapabilitiesPrivilegesMap
        missing ==
            \/ ~known
            \/ commandToCapabilitiesPrivilegesMap[commandName].capability
                   \notin endpointCaps
        e1 == IF getRbacControl(commandName, privileges) # TRUE
              THEN INSUFFICIENT_PRIVILEGES_FOR_COMMAND ELSE <<>>
        e2 == IF missing THEN e1 \o UPGRADE_ENDPOINT_FOR_RESPONDER ELSE e1
    IN IF Len(e2) > 0 THEN Message(e2) ELSE True

capabilitiesAndPrivilegesValidatorPrivilegeOnly(command) ==
    LET privileges == command.commandDefinition.meta.privileges
        commandName == command.commandDefinition.name
    IN IF getRbacControl(commandName, privileges) # TRUE
       THEN Message(INSUFFICIENT_PRIVILEGES_FOR_COMMAND)
       ELSE True

capabilitiesAndPrivilegesValidator(command) ==
    LET privileges == command.commandDefinition.meta.privileges
        endpointCaps == command.commandDefinition.meta.capabilities
        commandName == command.commandDefinition.name
        known == commandName \in DOMAIN commandToCapabilitiesPrivilegesMap
        responderCapability ==
            commandToCapabilitiesPrivilegesMap[commandName].capability
        e0 == <<>>
        e1 == IF ~known THEN e0 \o UPGRADE_ENDPOINT_FOR_RESPONDER ELSE e0
        e2 == IF known /\ responderCapability \notin endpointCaps
              THEN e1 \o UPGRADE_ENDPOINT_FOR_RESPONDER
              ELSE e1
        errorMessage ==
            IF getRbacControl(commandName, privileges) # TRUE
            THEN e2 \o INSUFFICIENT_PRIVILEGES_FOR_COMMAND
            ELSE e2
    IN IF Len(errorMessage) > 0 THEN Message(errorMessage) ELSE True

(***************************************************************************)
(* The command registry.  A descriptor carries the fields of the source's  *)
(* CommandDefinition that the console reads to gate, validate and order a  *)
(* command; a field the source leaves out is left out here.  The example   *)
(* strings and group label are display text only and are not carried.      *)
(***************************************************************************)
HELP_GROUPS == [responseActions |-> [position |-> 0]]

UPGRADE_REQUIRED_ABOUT == <<"UPGRADE_AGENT_FOR_RESPONDER">>

\* get_command_about_info: the about text, with the upgrade-required text
\* when the host does not support the command
getCommandAboutInfo(aboutInfo, isSupported) ==
    IF isSupported THEN aboutInfo ELSE aboutInfo \o UPGRADE_REQUIRED_ABOUT

\* a variant that asks only whether the command names a capability
doesEndpointSupportCommandAnyHost(commandName, capabilities) ==
    commandName \in DOMAIN commandToCapabilitiesPrivilegesMap

doesEndpointSupportCommand(commandName, capabilities) ==
    IF commandName \in DOMAIN commandToCapabilitiesPrivilegesMap
    THEN commandToCapabilitiesPrivilegesMap[commandName].capability
             \in capabilities
    ELSE FALSE

Meta(agentId, capabilities, privileges) ==
    [endpointId |-> agentId, capabilities |-> capabilities,
     privileges |-> privileges]

COMMENT_ARG == [required |-> FALSE, allowMultiples |-> FALSE]

\* a variant that never hides a command
GatedCommandNeverHidden(name, aboutInfo, aboutName, render, mustHaveArgs, args, position, agentId, capabilities, privileges) ==
    [name |-> name,
     about |-> getCommandAboutInfo(
                   aboutInfo, doesEndpointSupportCommand(aboutName, capabilities)),
     RenderComponent |-> render,
     meta |-> Meta(agentId, capabilities, privileges),
     validate |-> "capabilitiesAndPrivilegesValidator",
     mustHaveArgs |-> mustHaveArgs,   \* FALSE where the source leaves it out
     args |-> args,
     helpGroupPosition |-> HELP_GROUPS.responseActions.position,
     helpCommandPosition |-> position,
     helpDisabled |-> doesEndpointSupportCommand(name, capabilities) = FALSE,
     helpHidden |-> FALSE]

\* the descriptor shared by the commands that carry the gate
GatedCommand(name, aboutInfo, aboutName, render, mustHaveArgs, args, position, agentId, capabilities, privileges) ==
    [name |-> name,
     about |-> getCommandAboutInfo(
                   aboutInfo, doesEndpointSupportCommand(aboutName, capabilities)),
     RenderComponent |-> render,
     meta |-> Meta(agentId, capabilities, privileges),
     validate |-> "capabilitiesAndPrivilegesValidator",
     mustHaveArgs |-> mustHaveArgs,   \* FALSE where the source leaves it out
     args |-> args,
     helpGroupPosition |-> HELP_GROUPS.responseActions.position,
     helpCommandPosition |-> position,
     helpDisabled |-> doesEndpointSupportCommand(name, capabilities) = FALSE,
     helpHidden |-> ~getRbacControl(name, privileges)]

IsolateCommand(agentId, capabilities, privileges) ==
    GatedCommand("isolate", <<"Isolate the host">>, "isolate",
                 "IsolateActionResult", FALSE, [comment |-> COMMENT_ARG], 0,
                 agentId, capabilities, privileges)

ReleaseCommand(agentId, capabilities, privileges) ==
    GatedCommand("release", <<"Release the host">>, "release",
                 "ReleaseActionResult", FALSE, [comment |-> COMMENT_ARG], 1,
                 agentId, capabilities, privileges)

\* a variant whose entityId is not in the exclusive-or group
ProcessArgsNoExclusiveOr ==
    [comment |-> COMMENT_ARG,
     pid |-> [required |-> FALSE, allowMultiples |-> FALSE,
              exclusiveOr |-> TRUE, validate |-> "pidValidator"],
     entityId |-> [required |-> FALSE, allowMultiples |-> FALSE,
                   validate |-> "emptyArgumentValidator"]]

\* the args of kill-process and of suspend-process
ProcessArgs ==
    [comment |-> COMMENT_ARG,
     pid |-> [required |-> FALSE, allowMultiples |-> FALSE,
              exclusiveOr |-> TRUE, validate |-> "pidValidator"],
     entityId |-> [required |-> FALSE, allowMultiples |-> FALSE,
                   exclusiveOr |-> TRUE,
                   validate |-> "emptyArgumentValidator"]]

KillProcessCommand(agentId, capabilities, privileges) ==
    GatedCommand("kill-process", <<"Kill/terminate a process">>,
                 "kill-process", "KillProcessActionResult", TRUE, ProcessArgs,
                 4, agentId, capabilities, privileges)

SuspendProcessCommand(agentId, capabilities, privileges) ==
    GatedCommand("suspend-process", <<"Temporarily suspend a process">>,
                 "suspend-process", "SuspendProcessActionResult", TRUE,
                 ProcessArgs, 5, agentId, capabilities, privileges)

StatusCommand(agentId) ==
    [name |-> "status",
     about |-> <<"Show host status information">>,
     RenderComponent |-> "EndpointStatusActionResult",
     meta |-> [endpointId |-> agentId],
     helpGroupPosition |-> HELP_GROUPS.responseActions.position,
     helpCommandPosition |-> 2]

ProcessesCommand(agentId, capabilities, privileges) ==
    GatedCommand("processes", <<"Show all running processes">>, "processes",
                 "GetProcessesActionResult", FALSE, [comment |-> COMMENT_ARG],
                 3, agentId, capabilities, privileges)

\* its about text is built from doesEndpointSupportCommand('processes')
GetFileCommand(agentId, capabilities, privileges) ==
    GatedCommand("get-file", <<"Retrieve a file from the host">>, "processes",
                 "GetFileActionResult", TRUE,
                 [path |-> [required |-> TRUE, allowMultiples |-> FALSE,
                            validate |-> "emptyArgumentValidator"],
                  comment |-> COMMENT_ARG],
                 6, agentId, capabilities, privileges)

ExecuteCommand(agentId, capabilities, privileges) ==
    GatedCommand("execute", <<"Execute a command on the host">>, "execute",
                 "ExecuteActionResult", TRUE,
                 [command |-> [required |-> TRUE, allowMultiples |-> FALSE,
                               mustHaveValue |-> "non-empty-string"],
                  timeout |-> [required |-> FALSE, allowMultiples |-> FALSE,
                               mustHaveValue |-> "non-empty-string",
                               validate |-> "executeTimeoutValidator"],
                  comment |-> COMMENT_ARG],
                 6, agentId, capabilities, privileges)

\* the six commands that are always registered
BaseCommands(agentId, capabilities, privileges) ==
    <<IsolateCommand(agentId, capabilities, privileges),
      ReleaseCommand(agentId, capabilities, privileges),
      KillProcessCommand(agentId, capabilities, privileges),
      SuspendProcessCommand(agentId, capabilities, privileges),
      StatusCommand(agentId),
      ProcessesCommand(agentId, capabilities, privileges)>>

\* a registry that drops what the host or the caller cannot use
getEndpointConsoleCommandsFiltered(agentId, capabilities, privileges) ==
    SelectSeq(
        BaseCommands(agentId, capabilities, privileges)
        \o (IF experimentalFeatures.responseActionGetFileEnabled
            THEN <<GetFileCommand(agentId, capabilities, privileges)>>
            ELSE <<>>)
        \o (IF experimentalFeatures.responseActionExecuteEnabled
            THEN <<ExecuteCommand(agentId, capabilities, privileges)>>
            ELSE <<>>),
        LAMBDA c : "helpHidden" \notin DOMAIN c \/ ~c.helpHidden)

getEndpointConsoleCommands(agentId, capabilities, privileges) ==
    LET isGetFileEnabled == experimentalFeatures.responseActionGetFileEnabled
        isExecuteEnabled == experimentalFeatures.responseActionExecuteEnabled
    IN BaseCommands(agentId, capabilities, privileges)
       \o (IF isGetFileEnabled
           THEN <<GetFileCommand(agentId, capabilities, privileges)>>
           ELSE <<>>)
       \o (IF isExecuteEnabled
           THEN <<ExecuteCommand(agentId, capabilities, privileges)>>
           ELSE <<>>)

(***************************************************************************)
(* validateArguments: the console's check of an entered command line       *)
(* against the command's argument definitions.  A parsed input is the      *)
(* command name and the entered arguments in order of first appearance,    *)
(* each with its ParsedArgData.                                            *)
(***************************************************************************)
NO_ARGUMENTS_SUPPORTED == <<"Command does not support any arguments">>
UNKNOWN_ARGUMENT == <<"The following command argument is not supported">>
MISSING_REQUIRED_ARGUMENT == <<"Missing required argument">>
EXCLUSIVE_OR_ARGUMENTS ==
    <<"This command supports one and only one of the following arguments">>
MISSING_ARGUMENTS == <<"Missing required arguments">>
NO_MULTIPLES == <<"Argument can only be used once">>
MUST_HAVE_VALUE == <<"Argument must have a value">>

ArgsOf(definition) ==
    IF "args" \in DOMAIN definition THEN definition.args ELSE <<>>

EnteredNames(input) == {input.args[i].name : i \in 1..Len(input.args)}

\* the check of one entered argument against its definition
validateArgument(argDefinition, data) ==
    IF ~argDefinition.allowMultiples /\ Len(data.values) > 1
    THEN Message(NO_MULTIPLES)
    ELSE IF /\ "mustHaveValue" \in DOMAIN argDefinition
            /\ emptyArgumentValidator(data) # True
    THEN Message(MUST_HAVE_VALUE)
    ELSE IF "validate" \in DOMAIN argDefinition
    THEN CallValidator(argDefinition.validate, data)
    ELSE True

\* the result of the first entered argument, from position i on, that fails
RECURSIVE FirstFailure(_, _, _)
FirstFailure(argDefinitions, entered, i) ==
    IF i > Len(entered) THEN True
    ELSE LET result ==
                 validateArgument(argDefinitions[entered[i].name],
                                  entered[i].data)
         IN IF result # True THEN result
            ELSE FirstFailure(argDefinitions, entered, i + 1)

validateArguments(definition, input) ==
    LET argDefinitions == ArgsOf(definition)
        names == DOMAIN argDefinitions
        entered == EnteredNames(input)
        required == {n \in names : argDefinitions[n].required}
        exclusiveOr == {n \in names : /\ "exclusiveOr" \in DOMAIN argDefinitions[n]
                                      /\ argDefinitions[n].exclusiveOr}
    IN IF entered # {} /\ names = {} THEN Message(NO_ARGUMENTS_SUPPORTED)
       ELSE IF ~(entered \subseteq names) THEN Message(UNKNOWN_ARGUMENT)
       ELSE IF ~(required \subseteq entered)
       THEN Message(MISSING_REQUIRED_ARGUMENT)
       ELSE IF exclusiveOr # {} /\ Cardinality(exclusiveOr \cap entered) # 1
       THEN Message(EXCLUSIVE_OR_ARGUMENTS)
       ELSE IF /\ "mustHaveArgs" \in DOMAIN definition
               /\ definition.mustHaveArgs
               /\ entered = {}
       THEN Message(MISSING_ARGUMENTS)
       ELSE FirstFailure(argDefinitions, input.args, 1)

(***************************************************************************)
(* Inputs                                                                  *)
(***************************************************************************)
AgentIds == {"agent-a"}
CapabilityLists == SUBSET EndpointCapabilities
Privileges == [PrivilegeNames -> BOOLEAN]
FeatureFlags ==
    [responseActionGetFileEnabled : BOOLEAN,
     responseActionExecuteEnabled : BOOLEAN]

\* the characters of the exhaustively enumerated argument values
Alphabet == {"0", "1", "2", "-", ".", "e", " ", "x", "m"}
StringsUpTo(n) == UNION {[1..k -> Alphabet] : k \in 0..n}

\* the values the specification and the validators' messages name, and the
\* values around Number.MAX_SAFE_INTEGER
ExampleStrings ==
    {<<"1", "2", "3">>, <<"0">>, <<"-", "5">>, <<>>, <<"a", "b", "c">>,
     <<"3", "7", "m">>, <<"2", "s">>, <<"4", "h">>, <<"3", "7">>,
     <<"m", "3", "7">>, <<"9", "e", "1", "5">>, <<"1", "e", "1", "6">>,
     MaxSafeDigits,
     SubSeq(MaxSafeDigits, 1, 15) \o <<"2">>}

ArgDataInputs ==
    {UndefinedArgData, ArgData(<<>>), ArgData(<<BooleanTrue>>),
     ArgData(<<StringValue(<<"1">>), StringValue(<<"2">>)>>),
     ArgData(<<StringValue(<<"1">>), BooleanTrue>>),
     ArgData(<<BooleanTrue, StringValue(<<"1", "m">>)>>)}
    \cup {ArgData(<<StringValue(s)>>) :
              s \in StringsUpTo(MaxLen) \cup ExampleStrings}

\* the argument data of entered command lines
EnteredArgData ==
    {ArgData(<<BooleanTrue>>),
     ArgData(<<StringValue(<<"1">>), StringValue(<<"2">>)>>)}
    \cup {ArgData(<<StringValue(s)>>) :
              s \in {<<"1", "2", "3">>, <<"0">>, <<>>, <<" ">>,
                     <<"a", "b", "c">>, <<"3", "7", "m">>}}

ArgNames == {"comment", "pid", "entityId", "path", "command", "timeout"}

\* the argument names one may enter for a command: its own and one it lacks
NamesFor(definition) ==
    DOMAIN ArgsOf(definition)
    \cup {CHOOSE n \in ArgNames : n \notin DOMAIN ArgsOf(definition)}

\* the argument lists of at most MaxArgs distinct names from `names`
EnteredArgs(names) ==
    UNION {{a \in [1..k -> [name : names, data : EnteredArgData]] :
               \A i, j \in 1..k : i # j => a[i].name # a[j].name} :
           k \in 0..MaxArgs}

(***************************************************************************)
(* Detection rules: the requests the tests of update_actions.ts make and   *)
(* the rule store they are made to.  A rule is a record of its properties; *)
(* `name` stands for the properties a request carries through unchanged.   *)
(***************************************************************************)
MaxRevision == 3     \* updates of one rule that are followed

ELASTIC_SECURITY_RULE_ID == "9a1a2dae-0b5f-4c3d-8305-a268d404c306"
HookActionIds == {"hook-1", "hook-2"}

\* the rules of the mock prebuilt package
PrebuiltRuleIds == {ELASTIC_SECURITY_RULE_ID}
MockPrebuiltRules ==
    [rule_id : PrebuiltRuleIds, name : {"Endpoint Security"},
     enabled : BOOLEAN]

getSimpleRule ==
    [rule_id |-> "rule-1", name |-> "Simple Rule Query", enabled |-> FALSE]

WebHookAction(id) ==
    [group |-> "default", id |-> id, action_type_id |-> ".webhook"]

\* the rule with the webhook action attached
getRuleWithWebHookAction(id, enabled, rule) ==
    [f \in DOMAIN rule \cup {"enabled", "throttle", "actions"} |->
        CASE f = "enabled" -> enabled
          [] f = "throttle" -> "rule"
          [] f = "actions" -> <<WebHookAction(id)>>
          [] OTHER -> rule[f]]

\* a returned rule as the request that updates it
ruleToUpdateSchema(rule) ==
    [f \in {"rule_id", "name", "enabled", "actions", "throttle"} |-> rule[f]]

ServerGeneratedProperties == {"id"}
removeServerGeneratedProperties(rule) ==
    [f \in DOMAIN rule \ ServerGeneratedProperties |-> rule[f]]

omit(object, props) == [f \in DOMAIN object \ props |-> object[f]]

\* the stored form of a request's properties
RuleProperties(request) ==
    [rule_id |-> request.rule_id,
     name |-> request.name,
     enabled |-> request.enabled,
     actions |-> IF "actions" \in DOMAIN request THEN request.actions ELSE <<>>,
     throttle |-> IF "throttle" \in DOMAIN request
                  THEN request.throttle ELSE "no_actions"]

\* what the server keeps of its own for a rule
ServerProperties(id, immutable, revision) ==
    [id |-> id, immutable |-> immutable, version |-> 1, revision |-> revision]

Merge(a, b) ==
    [f \in DOMAIN a \cup DOMAIN b |-> IF f \in DOMAIN b THEN b[f] ELSE a[f]]

\* the rule a create request, or the installation of a prebuilt rule, stores
createdRule(request, id, immutable) ==
    Merge(RuleProperties(request), ServerProperties(id, immutable, 0))

getSimpleRuleOutput ==
    removeServerGeneratedProperties(createdRule(getSimpleRule, 0, FALSE))

RuleIndex(ruleId) ==
    {i \in 1..Len(rules) : rules[i].rule_id = ruleId}
getRule(ruleId) == rules[CHOOSE i \in RuleIndex(ruleId) : TRUE]

\* a variant that merges the request into the stored rule, as a patch does
updatedRulePatched(existing, request) ==
    Merge(Merge(existing, request),
          [revision |-> existing.revision + 1])

\* a variant that keeps the stored revision
updatedRuleSameRevision(existing, request) ==
    Merge(RuleProperties(request),
          ServerProperties(existing.id, existing.immutable, existing.revision))

\* the rule an update stores: the request's properties, the stored rule's
\* identity and immutability, and the next revision
updatedRule(existing, request) ==
    Merge(RuleProperties(request),
          ServerProperties(existing.id, existing.immutable,
                           existing.revision + 1))

findImmutableRuleById(ruleId) ==
    SelectSeq(rules, LAMBDA r : r.rule_id = ruleId /\ r.immutable)

\* getPrebuiltRulesAndTimelinesStatus().rules_not_installed
rules_not_installed ==
    Cardinality({id \in PrebuiltRuleIds :
                     Len(findImmutableRuleById(id)) = 0})

RulesIdle ==
    /\ rules = <<>>
    /\ connectors = {}
    /\ ruleRequest = Undefined
    /\ ruleResponse = Undefined

(***************************************************************************)
(* Cloud-defend policy editor: the ControlGeneralView the tests render, a  *)
(* policy's selectors and responses, and the user events of the tests.  A  *)
(* selector's name is a sequence of text atoms, typed characters appended. *)
(***************************************************************************)
MaxCalls == 3        \* onChange calls that are followed

Selector(type, name) == [type |-> type, name |-> name]
Response(type, match, exclude, actions) ==
    [type |-> type, match |-> match, exclude |-> exclude, actions |-> actions]

\* the configuration of getCloudDefendNewPolicyMock()
getCloudDefendNewPolicyMock ==
    [selectors |-> <<Selector("file", <<"default">>),
                     Selector("file", <<"nginxOnly">>),
                     Selector("file", <<"excludeCustomNginxBuild">>)>>,
     responses |-> <<Response("file", <<(<<"nginxOnly">>)>>,
                              <<(<<"excludeCustomNginxBuild">>)>>,
                              <<"alert", "block">>),
                     Response("file", <<(<<"default">>)>>, <<>>,
                              <<"alert">>)>>]

\* the policy with one file selector and no process selector
testPolicy ==
    [selectors |-> <<Selector("file", <<"test">>)>>,
     responses |-> <<Response("file", <<(<<"test">>)>>, <<>>,
                              <<"alert", "block">>)>>]

SelectorTypes == {"file", "process"}
TypedCharacters == {"2", "3"}

SelectorsOfType(p, type) == SelectSeq(p.selectors, LAMBDA s : s.type = type)
SelectorNames(p) == {p.selectors[i].name : i \in 1..Len(p.selectors)}

\* a name no selector has yet
RECURSIVE UniqueName(_, _)
UniqueName(names, candidate) ==
    IF candidate \notin names THEN candidate
    ELSE UniqueName(names, candidate \o <<"1">>)

addSelector(p, type) ==
    [p EXCEPT !.selectors =
        Append(@, Selector(type, UniqueName(SelectorNames(p), <<"Untitled">>)))]

\* a variant that looks at the file selectors for either type
addResponseDisabledFileOnly(p, type) == SelectorsOfType(p, "file") = <<>>

\* the add-response control of a type is disabled without a selector of it
addResponseDisabled(p, type) == SelectorsOfType(p, type) = <<>>

addResponse(p, type) ==
    [p EXCEPT !.responses =
        Append(@, Response(type,
                           IF SelectorsOfType(p, type) = <<>> THEN <<>>
                           ELSE <<SelectorsOfType(p, type)[1].name>>,
                           <<>>, <<"alert">>))]

Renamed(list, oldName, newName) ==
    [k \in 1..Len(list) |-> IF list[k] = oldName THEN newName ELSE list[k]]

\* a variant that leaves the exclude lists as they are
renameSelectorMatchOnly(p, i, newName) ==
    LET oldName == p.selectors[i].name
    IN [selectors |-> [p.selectors EXCEPT ![i].name = newName],
        responses |->
            [r \in 1..Len(p.responses) |->
                [p.responses[r] EXCEPT
                    !.match = Renamed(@, oldName, newName)]]]

\* the change of a selector's name, carried to the responses that use it
renameSelector(p, i, newName) ==
    LET oldName == p.selectors[i].name
    IN [selectors |-> [p.selectors EXCEPT ![i].name = newName],
        responses |->
            [r \in 1..Len(p.responses) |->
                [p.responses[r] EXCEPT
                    !.match = Renamed(@, oldName, newName),
                    !.exclude = Renamed(@, oldName, newName)]]]

EditorIdle ==
    /\ policy = getCloudDefendNewPolicyMock
    /\ onChangeCalls = 0
    /\ lastEvent = Undefined

(***************************************************************************)
(* SLO edit form: the tags field of SloEditFormDescriptionSection.  A tag  *)
(* is a string of characters; field.value is a list of tags or undefined.  *)
(***************************************************************************)
TagsValue(values) == [isUndefined |-> FALSE, values |-> values]
UndefinedTags == [isUndefined |-> TRUE, values |-> <<>>]

\* String.prototype.toLowerCase on the characters of the entered values
LowerCase(c) ==
    CASE c = "A" -> "a"
      [] c = "B" -> "b"
      [] OTHER -> c
ToLowerCase(s) == [i \in 1..Len(s) |-> LowerCase(s[i])]

\* Array.prototype.findIndex for the tag equal to the normalized value
RECURSIVE FindIndexNormalized(_, _, _)
FindIndexNormalized(values, normalizedSearchValue, i) ==
    IF i > Len(values) THEN -1
    ELSE IF ToLowerCase(Trim(values[i])) = normalizedSearchValue THEN i
    ELSE FindIndexNormalized(values, normalizedSearchValue, i + 1)

\* what a handler does with field.onChange: not called, or called with value
NotCalled == [called |-> FALSE, value |-> UndefinedTags]
Called(values) == [called |-> TRUE, value |-> TagsValue(values)]

\* a variant that compares the existing tags without lower-casing them
onCreateOptionCaseSensitive(fieldValue, searchValue) ==
    LET normalizedSearchValue == ToLowerCase(Trim(searchValue))
        values == IF fieldValue.isUndefined THEN <<>> ELSE fieldValue.values
    IN IF normalizedSearchValue = <<>> THEN NotCalled
       ELSE IF \A i \in 1..Len(values) :
                   Trim(values[i]) # normalizedSearchValue
       THEN Called(values \o <<searchValue>>)
       ELSE NotCalled

\* a variant that appends the normalized value
onCreateOptionNormalized(fieldValue, searchValue) ==
    LET normalizedSearchValue == ToLowerCase(Trim(searchValue))
        values == IF fieldValue.isUndefined THEN <<>> ELSE fieldValue.values
    IN IF normalizedSearchValue = <<>> THEN NotCalled
       ELSE IF FindIndexNormalized(values, normalizedSearchValue, 1) = -1
       THEN Called(values \o <<normalizedSearchValue>>)
       ELSE NotCalled

onCreateOption(fieldValue, searchValue) ==
    LET normalizedSearchValue == ToLowerCase(Trim(searchValue))
        values == IF fieldValue.isUndefined THEN <<>> ELSE fieldValue.values
    IN IF normalizedSearchValue = <<>> THEN NotCalled
       ELSE IF FindIndexNormalized(values, normalizedSearchValue, 1) = -1
       THEN Called(values \o <<searchValue>>)
       ELSE NotCalled

\* the combo box's onChange: the values of the selected options
onChange(selected) ==
    IF Len(selected) > 0 THEN Called(selected) ELSE Called(<<>>)

\* the values entered in the combo box: blank ones, and ones that differ in
\* case and in surrounding white space only
TagInputs ==
    {<<>>, <<" ">>, <<"a">>, <<"A">>, <<" ", "a">>, <<"A", " ">>, <<"b">>,
     <<"B">>, <<"a", "b">>, <<"a", "B">>, <<"a", " ", "b">>}

\* the elements of s whose position the mask keeps, in order
RECURSIVE Kept(_, _, _)
Kept(s, mask, i) ==
    IF i > Len(s) THEN <<>>
    ELSE (IF mask[i] THEN <<s[i]>> ELSE <<>>) \o Kept(s, mask, i + 1)

\* the selections the combo box can report: the selected options with some
\* of them removed
Selections(values) ==
    {Kept(values, mask, 1) : mask \in [1..Len(values) -> BOOLEAN]}

SloIdle ==
    /\ tags = TagsValue(<<>>)
    /\ tagsEvent = Undefined

(***************************************************************************)
(* The session: the registry is built once from the session's inputs, and  *)
(* an entered command is handed to its validate().                         *)
(***************************************************************************)
RegistryIdle ==
    /\ consoleCommands = <<>>
    /\ enteredCommand = Undefined
    /\ validateResult = Undefined
    /\ gateCall = Undefined

ValidatorsIdle ==
    /\ validatorName = "none"
    /\ argData = UndefinedArgData
    /\ validatorResult = Undefined

ArgumentsIdle ==
    /\ parsedInput = Undefined
    /\ argumentsResult = Undefined

Init ==
    /\ endpointAgentId \in AgentIds
    /\ endpointCapabilities \in CapabilityLists
    /\ endpointPrivileges \in Privileges
    /\ experimentalFeatures \in FeatureFlags
    /\ RegistryIdle
    /\ RulesIdle
    /\ SloIdle
    /\ EditorIdle
    /\ ValidatorsIdle
    /\ ArgumentsIdle

GetEndpointConsoleCommands ==
    /\ consoleCommands = <<>>
    /\ consoleCommands' =
           getEndpointConsoleCommands(endpointAgentId, endpointCapabilities,
                                      endpointPrivileges)
    /\ UNCHANGED <<sessionVars, enteredCommand, validateResult, gateCall,
                   argVars>>
    /\ UNCHANGED <<ruleVars, editorVars, sloVars>>

\* The console runs the entered command's validate(), when it has one.  The
\* inputs never change within a session, so a second entered command reaches
\* no state the first cannot: one command is entered per behaviour.
EnterCommand(i) ==
    /\ enteredCommand = Undefined
    /\ i \in 1..Len(consoleCommands)
    /\ LET command == [commandDefinition |-> consoleCommands[i]]
       IN /\ enteredCommand' = command
          /\ validateResult' =
                 IF "validate" \in DOMAIN consoleCommands[i]
                 THEN capabilitiesAndPrivilegesValidator(command)
                 ELSE Undefined
    /\ UNCHANGED <<sessionVars, consoleCommands, gateCall, argVars>>
    /\ UNCHANGED <<ruleVars, editorVars, sloVars>>

Next ==
    \/ GetEndpointConsoleCommands
    \/ \E i \in 1..Len(consoleCommands) : EnterCommand(i)

Spec == Init /\ [][Next]_vars

(***************************************************************************)
(* The argument validators, each called on its own: a behaviour is one     *)
(* call of one validator (they keep no state between calls).               *)
(***************************************************************************)
AllPrivileges == [p \in PrivilegeNames |-> TRUE]

ValidatorInit ==
    /\ endpointAgentId \in AgentIds
    /\ endpointCapabilities = EndpointCapabilities
    /\ endpointPrivileges = AllPrivileges
    /\ experimentalFeatures =
           [responseActionGetFileEnabled |-> TRUE,
            responseActionExecuteEnabled |-> TRUE]
    /\ RegistryIdle
    /\ RulesIdle
    /\ SloIdle
    /\ EditorIdle
    /\ ValidatorsIdle
    /\ ArgumentsIdle

CallEmptyArgumentValidator(a) ==
    /\ validatorName = "none"
    /\ validatorName' = "emptyArgumentValidator"
    /\ argData' = a
    /\ validatorResult' = emptyArgumentValidator(a)
    /\ UNCHANGED <<sessionVars, registryVars, parsedInput, argumentsResult>>
    /\ UNCHANGED <<ruleVars, editorVars, sloVars>>

CallPidValidator(a) ==
    /\ validatorName = "none"
    /\ validatorName' = "pidValidator"
    /\ argData' = a
    /\ validatorResult' = pidValidator(a)
    /\ UNCHANGED <<sessionVars, registryVars, parsedInput, argumentsResult>>
    /\ UNCHANGED <<ruleVars, editorVars, sloVars>>

CallExecuteTimeoutValidator(a) ==
    /\ validatorName = "none"
    /\ validatorName' = "executeTimeoutValidator"
    /\ argData' = a
    /\ validatorResult' = executeTimeoutValidator(a)
    /\ UNCHANGED <<sessionVars, registryVars, parsedInput, argumentsResult>>
    /\ UNCHANGED <<ruleVars, editorVars, sloVars>>

ValidatorNext ==
    \/ /\ validatorName = "none"
       /\ \E a \in ArgDataInputs : CallEmptyArgumentValidator(a)
    \/ /\ validatorName = "none"
       /\ \E a \in ArgDataInputs : CallPidValidator(a)
    \/ /\ validatorName = "none"
       /\ \E a \in ArgDataInputs : CallExecuteTimeoutValidator(a)

ValidatorSpec == ValidatorInit /\ [][ValidatorNext]_vars

(***************************************************************************)
(* Entered command lines, validated against the registry's definitions.    *)
(***************************************************************************)
ArgumentsInit ==
    /\ endpointAgentId \in AgentIds
    /\ endpointCapabilities = EndpointCapabilities
    /\ endpointPrivileges = AllPrivileges
    /\ experimentalFeatures \in FeatureFlags
    /\ RegistryIdle
    /\ RulesIdle
    /\ SloIdle
    /\ EditorIdle
    /\ ValidatorsIdle
    /\ ArgumentsIdle

\* one command line is validated per behaviour
ValidateArguments(i, entered) ==
    /\ parsedInput = Undefined
    /\ i \in 1..Len(consoleCommands)
    /\ LET input == [name |-> consoleCommands[i].name, args |-> entered]
       IN /\ parsedInput' = input
          /\ argumentsResult' = validateArguments(consoleCommands[i], input)
    /\ UNCHANGED <<sessionVars, registryVars, validatorName, argData,
                   validatorResult>>
    /\ UNCHANGED <<ruleVars, editorVars, sloVars>>

ArgumentsNext ==
    \/ GetEndpointConsoleCommands
    \/ /\ parsedInput = Undefined
       /\ \E i \in 1..Len(consoleCommands) :
              \E entered \in EnteredArgs(NamesFor(consoleCommands[i])) :
                  ValidateArguments(i, entered)

ArgumentsSpec == ArgumentsInit /\ [][ArgumentsNext]_vars

(***************************************************************************)
(* The console's checks of one entered command together: once the registry *)
(* is built, one check is made per behaviour -- the command's validate(),  *)
(* an argument validator, or the validation of the entered command line -- *)
(* for a caller and host with nothing granted and with everything granted. *)
(***************************************************************************)
NoPrivileges == [p \in PrivilegeNames |-> FALSE]

ConsoleInit ==
    /\ endpointAgentId \in AgentIds
    /\ \E granted \in BOOLEAN :
           /\ endpointCapabilities = IF granted THEN EndpointCapabilities ELSE {}
           /\ endpointPrivileges = IF granted THEN AllPrivileges ELSE NoPrivileges
    /\ experimentalFeatures =
           [responseActionGetFileEnabled |-> TRUE,
            responseActionExecuteEnabled |-> TRUE]
    /\ RegistryIdle
    /\ RulesIdle
    /\ SloIdle
    /\ EditorIdle
    /\ ValidatorsIdle
    /\ ArgumentsIdle

\* the registry is built and no check has been made yet
ConsoleReady ==
    /\ consoleCommands # <<>>
    /\ enteredCommand = Undefined
    /\ ValidatorsIdle
    /\ ArgumentsIdle

ConsoleNext ==
    \/ GetEndpointConsoleCommands
    \/ /\ ConsoleReady
       /\ \E i \in 1..Len(consoleCommands) : EnterCommand(i)
    \/ /\ ConsoleReady
       /\ \E a \in ArgDataInputs : CallEmptyArgumentValidator(a)
    \/ /\ ConsoleReady
       /\ \E a \in ArgDataInputs : CallPidValidator(a)
    \/ /\ ConsoleReady
       /\ \E a \in ArgDataInputs : CallExecuteTimeoutValidator(a)
    \/ /\ ConsoleReady
       /\ \E i \in 1..Len(consoleCommands) :
              \E entered \in EnteredArgs(NamesFor(consoleCommands[i])) :
                  ValidateArguments(i, entered)

ConsoleSpec == ConsoleInit /\ [][ConsoleNext]_vars

(***************************************************************************)
(* The requests of the tests of update_actions.ts, in any order.           *)
(***************************************************************************)
RulesInit ==
    /\ endpointAgentId \in AgentIds
    /\ endpointCapabilities = EndpointCapabilities
    /\ endpointPrivileges = AllPrivileges
    /\ experimentalFeatures =
           [responseActionGetFileEnabled |-> TRUE,
            responseActionExecuteEnabled |-> TRUE]
    /\ RegistryIdle
    /\ RulesIdle
    /\ SloIdle
    /\ EditorIdle
    /\ ValidatorsIdle
    /\ ArgumentsIdle

\* createNewAction: a webhook connector
CreateNewAction(id) ==
    /\ id \notin connectors
    /\ connectors' = connectors \cup {id}
    /\ ruleRequest' = [op |-> "createNewAction", rule_id |-> "", body |-> id]
    /\ ruleResponse' = Undefined
    /\ UNCHANGED <<rules, sessionVars, registryVars, argVars, editorVars,
                   sloVars>>

\* createRule(getSimpleRule())
CreateRule(rule) ==
    /\ RuleIndex(rule.rule_id) = {}
    /\ LET created == createdRule(rule, Len(rules) + 1, FALSE)
       IN /\ rules' = Append(rules, created)
          /\ ruleResponse' = created
    /\ ruleRequest' =
           [op |-> "createRule", rule_id |-> rule.rule_id, body |-> rule]
    /\ UNCHANGED <<connectors, sessionVars, registryVars, argVars, editorVars,
                   sloVars>>

\* getImmutableRule: install the mock prebuilt rules and read the rule
GetImmutableRule(prebuilt) ==
    /\ RuleIndex(prebuilt.rule_id) = {}
    /\ LET installed == createdRule(prebuilt, Len(rules) + 1, TRUE)
       IN /\ rules' = Append(rules, installed)
          /\ ruleResponse' = installed
    /\ ruleRequest' = [op |-> "getImmutableRule",
                       rule_id |-> prebuilt.rule_id, body |-> prebuilt]
    /\ UNCHANGED <<connectors, sessionVars, registryVars, argVars, editorVars,
                   sloVars>>

\* a variant that passes `false` for enabled, as the other tests do
ImmutableRuleToUpdateDisabled(hookActionId, immutableRule) ==
    getRuleWithWebHookAction(hookActionId, FALSE,
                             ruleToUpdateSchema(immutableRule))

\* the request that attaches the webhook action to the immutable rule
ImmutableRuleToUpdate(hookActionId, immutableRule) ==
    getRuleWithWebHookAction(hookActionId, immutableRule.enabled,
                             ruleToUpdateSchema(immutableRule))

\* the update requests the tests make
RulesToUpdate ==
    {getSimpleRule}
    \cup {getRuleWithWebHookAction(id, enabled, getSimpleRule) :
              id \in connectors, enabled \in BOOLEAN}
    \cup {ImmutableRuleToUpdate(id, getRule(ELASTIC_SECURITY_RULE_ID)) :
              id \in IF RuleIndex(ELASTIC_SECURITY_RULE_ID) = {}
                     THEN {} ELSE connectors}

\* updateRule(ruleToUpdate)
UpdateRule(request) ==
    /\ RuleIndex(request.rule_id) # {}
    /\ LET i == CHOOSE i \in RuleIndex(request.rule_id) : TRUE
       IN /\ rules[i].revision < MaxRevision
          /\ rules' = [rules EXCEPT ![i] = updatedRule(rules[i], request)]
          /\ ruleResponse' = updatedRule(rules[i], request)
    /\ ruleRequest' =
           [op |-> "updateRule", rule_id |-> request.rule_id, body |-> request]
    /\ UNCHANGED <<connectors, sessionVars, registryVars, argVars, editorVars,
                   sloVars>>

\* deleteAllRules, after each test
DeleteAllRules ==
    /\ rules # <<>>
    /\ rules' = <<>>
    /\ ruleRequest' = [op |-> "deleteAllRules", rule_id |-> "", body |-> ""]
    /\ ruleResponse' = Undefined
    /\ UNCHANGED <<connectors, sessionVars, registryVars, argVars, editorVars,
                   sloVars>>

RulesNext ==
    \/ \E id \in HookActionIds : CreateNewAction(id)
    \/ CreateRule(getSimpleRule)
    \/ \E prebuilt \in MockPrebuiltRules : GetImmutableRule(prebuilt)
    \/ \E request \in RulesToUpdate : UpdateRule(request)
    \/ DeleteAllRules

RulesSpec == RulesInit /\ [][RulesNext]_vars

(***************************************************************************)
(* The user events of the tests of ControlGeneralView, in any order; after *)
(* an onChange call the view is rendered again with the updated policy.    *)
(***************************************************************************)
EditorInit ==
    /\ endpointAgentId \in AgentIds
    /\ endpointCapabilities = EndpointCapabilities
    /\ endpointPrivileges = AllPrivileges
    /\ experimentalFeatures =
           [responseActionGetFileEnabled |-> TRUE,
            responseActionExecuteEnabled |-> TRUE]
    /\ consoleCommands = <<>>
    /\ enteredCommand = Undefined
    /\ validateResult = Undefined
    /\ gateCall = Undefined
    /\ ValidatorsIdle
    /\ ArgumentsIdle
    /\ RulesIdle
    /\ SloIdle
    /\ policy \in {getCloudDefendNewPolicyMock, testPolicy}
    /\ onChangeCalls = 0
    /\ lastEvent = Undefined

Event(event, target, index, text) ==
    [event |-> event, target |-> target, index |-> index, text |-> text]

\* onChange({updatedPolicy}) and the render with it that follows
OnChange(updatedPolicy) ==
    /\ onChangeCalls < MaxCalls
    /\ onChangeCalls' = onChangeCalls + 1
    /\ policy' = updatedPolicy

\* click on "add selector" and then on the selector type
ClickAddSelector(type) ==
    /\ lastEvent' = Event("click", "cloud-defend-btnAddSelector", 0, type)
    /\ OnChange(addSelector(policy, type))
    /\ UNCHANGED <<sessionVars, registryVars, argVars, ruleVars, sloVars>>

\* click on "add response" and then on the response type
ClickAddResponse(type) ==
    /\ lastEvent' = Event("click", "cloud-defend-btnAddResponse", 0, type)
    /\ IF addResponseDisabled(policy, type)
       THEN UNCHANGED <<policy, onChangeCalls>>
       ELSE OnChange(addResponse(policy, type))
    /\ UNCHANGED <<sessionVars, registryVars, argVars, ruleVars, sloVars>>

\* a character typed at the end of the name of the selector at position i
TypeSelectorName(i, character) ==
    /\ i \in 1..Len(policy.selectors)
    /\ lastEvent' =
           Event("type", "cloud-defend-selectorcondition-name", i, character)
    /\ OnChange(renameSelector(policy, i,
                               policy.selectors[i].name \o <<character>>))
    /\ UNCHANGED <<sessionVars, registryVars, argVars, ruleVars, sloVars>>

EditorNext ==
    \/ \E type \in SelectorTypes : ClickAddSelector(type)
    \/ \E type \in SelectorTypes : ClickAddResponse(type)
    \/ \E i \in 1..Len(policy.selectors) :
           \E character \in TypedCharacters : TypeSelectorName(i, character)

EditorSpec == EditorInit /\ [][EditorNext]_vars

(***************************************************************************)
(* getRbacControl and capabilitiesAndPrivilegesValidator called on the     *)
(* commands of the registry, status among them, in every session.          *)
(***************************************************************************)
GateInit ==
    /\ endpointAgentId \in AgentIds
    /\ endpointCapabilities \in CapabilityLists
    /\ endpointPrivileges \in Privileges
    /\ experimentalFeatures =
           [responseActionGetFileEnabled |-> TRUE,
            responseActionExecuteEnabled |-> TRUE]
    /\ RegistryIdle
    /\ RulesIdle
    /\ SloIdle
    /\ EditorIdle
    /\ ValidatorsIdle
    /\ ArgumentsIdle

\* the registry is built and no command was entered and no call made yet
GateReady ==
    /\ consoleCommands # <<>>
    /\ enteredCommand = Undefined
    /\ gateCall = Undefined

\* getRbacControl({commandName, privileges})
CallGetRbacControl(commandName) ==
    /\ gateCall' =
           [function |-> "getRbacControl", commandName |-> commandName,
            result |-> getRbacControl(commandName, endpointPrivileges)]
    /\ UNCHANGED <<sessionVars, consoleCommands, enteredCommand,
                   validateResult, argVars, ruleVars, editorVars, sloVars>>

\* capabilitiesAndPrivilegesValidator(command)
CallCapabilitiesAndPrivilegesValidator(definition) ==
    /\ gateCall' =
           [function |-> "capabilitiesAndPrivilegesValidator",
            commandName |-> definition.name,
            result |-> capabilitiesAndPrivilegesValidator(
                           [commandDefinition |-> definition])]
    /\ UNCHANGED <<sessionVars, consoleCommands, enteredCommand,
                   validateResult, argVars, ruleVars, editorVars, sloVars>>

\* the registry's descriptors, and status with the session in its meta
GateDefinitions ==
    {consoleCommands[i] : i \in 1..Len(consoleCommands)}
    \cup {[name |-> "status",
           meta |-> Meta(endpointAgentId, endpointCapabilities,
                         endpointPrivileges)]}

GateNext ==
    \/ GetEndpointConsoleCommands
    \/ /\ GateReady
       /\ \E i \in 1..Len(consoleCommands) : EnterCommand(i)
    \/ /\ GateReady
       /\ \E i \in 1..Len(consoleCommands) :
              CallGetRbacControl(consoleCommands[i].name)
    \/ /\ GateReady
       /\ \E definition \in GateDefinitions :
              CallCapabilitiesAndPrivilegesValidator(definition)

GateSpec == GateInit /\ [][GateNext]_vars

(***************************************************************************)
(* The tags field under create-option and selection-change events.         *)
(***************************************************************************)
SloInit ==
    /\ endpointAgentId \in AgentIds
    /\ endpointCapabilities = EndpointCapabilities
    /\ endpointPrivileges = AllPrivileges
    /\ experimentalFeatures =
           [responseActionGetFileEnabled |-> TRUE,
            responseActionExecuteEnabled |-> TRUE]
    /\ RegistryIdle
    /\ RulesIdle
    /\ EditorIdle
    /\ ValidatorsIdle
    /\ ArgumentsIdle
    /\ tags \in {TagsValue(<<>>), UndefinedTags}
    /\ tagsEvent = Undefined

\* the handler's call of field.onChange, when it makes one, sets field.value
FieldOnChange(call) ==
    tags' = IF call.called THEN call.value ELSE tags

TagsOnCreateOption(searchValue) ==
    /\ LET call == onCreateOption(tags, searchValue)
       IN /\ FieldOnChange(call)
          /\ tagsEvent' = [handler |-> "onCreateOption",
                           argument |-> searchValue, called |-> call.called]
    /\ UNCHANGED <<sessionVars, registryVars, argVars, ruleVars, editorVars>>

TagsOnChange(selected) ==
    /\ LET call == onChange(selected)
       IN /\ FieldOnChange(call)
          /\ tagsEvent' = [handler |-> "onChange", argument |-> selected,
                           called |-> call.called]
    /\ UNCHANGED <<sessionVars, registryVars, argVars, ruleVars, editorVars>>

SloNext ==
    \/ \E searchValue \in TagInputs : TagsOnCreateOption(searchValue)
    \/ \E selected \in Selections(tags.values) : TagsOnChange(selected)

SloSpec == SloInit /\ [][SloNext]_vars

(***************************************************************************)
(* Properties of the capability and privilege gate (Spec)                  *)
(***************************************************************************)
Entered == enteredCommand # Undefined
EnteredName == enteredCommand.commandDefinition.name
\* the entered command has an entry in the command map
EnteredMapped ==
    Entered /\ EnteredName \in DOMAIN commandToCapabilitiesPrivilegesMap
RequiredCapability(name) == commandToCapabilitiesPrivilegesMap[name].capability
\* the command's privilege predicate on the caller's privileges
Privileged(name) ==
    endpointPrivileges[commandToCapabilitiesPrivilegesMap[name].privilege]
Supported(name) == RequiredCapability(name) \in endpointCapabilities

\* C1: for a command of the command map, when the host's capability list
\* holds the command's capability and the privilege predicate is false, the
\* validator returns exactly the insufficient-privileges message.
C1_OnlyInsufficientPrivileges ==
    (EnteredMapped /\ Supported(EnteredName) /\ ~Privileged(EnteredName))
        => validateResult = Message(INSUFFICIENT_PRIVILEGES_FOR_COMMAND)

C1_Witness ==
    /\ EnteredMapped
    /\ EnteredName = "release"
    /\ Supported("release")
    /\ ~Privileged("release")
    /\ endpointPrivileges["canIsolateHost"]
    /\ validateResult = Message(INSUFFICIENT_PRIVILEGES_FOR_COMMAND)

\* C2: when the command's capability is absent from the host's list, the
\* validator returns an error that contains the upgrade-endpoint reason,
\* whether the privilege is granted or not.
C2_UpgradeWheneverUnsupported ==
    (EnteredMapped /\ ~Supported(EnteredName))
        => /\ ~validateResult.isTrue
           /\ \E i \in 1..Len(validateResult.text) :
                  <<validateResult.text[i]>> = UPGRADE_ENDPOINT_FOR_RESPONDER

C2_Witness ==
    /\ EnteredMapped
    /\ ~Supported(EnteredName)
    /\ Privileged(EnteredName)
    /\ validateResult = Message(UPGRADE_ENDPOINT_FOR_RESPONDER)

\* C3: when the capability is absent and the privilege is not granted, the
\* validator returns the upgrade-endpoint message immediately followed by
\* the insufficient-privileges message, each once.
C3_BothReasonsInOrder ==
    (EnteredMapped /\ ~Supported(EnteredName) /\ ~Privileged(EnteredName))
        => validateResult =
               Message(UPGRADE_ENDPOINT_FOR_RESPONDER
                       \o INSUFFICIENT_PRIVILEGES_FOR_COMMAND)

C3_Witness ==
    /\ EnteredMapped
    /\ EnteredName = "kill-process"
    /\ ~Supported("kill-process")
    /\ ~Privileged("kill-process")
    /\ Len(validateResult.text) = 2

\* C4: the validator returns true exactly when the host's list holds the
\* command's capability and the privilege predicate is true; otherwise it
\* returns a non-empty error string.
C4_OkIffSupportedAndPrivileged ==
    EnteredMapped
        => /\ validateResult = True
               <=> (Supported(EnteredName) /\ Privileged(EnteredName))
           /\ validateResult # True
               => (~validateResult.isTrue /\ Len(validateResult.text) > 0)

C4_Witness ==
    /\ EnteredMapped
    /\ Supported(EnteredName)
    /\ Privileged(EnteredName)
    /\ validateResult = True
    /\ \E c \in EndpointCapabilities : c \notin endpointCapabilities
    /\ \E p \in PrivilegeNames : ~endpointPrivileges[p]

(***************************************************************************)
(* Properties of the registry (Spec)                                       *)
(***************************************************************************)
Built == consoleCommands # <<>>
\* the descriptors that carry the disabled and hidden flags
Flagged == {i \in 1..Len(consoleCommands) :
                "helpDisabled" \in DOMAIN consoleCommands[i]}

\* C5: a registered command whose capability the host does not support is
\* disabled and visible when the caller holds its permission, and hidden
\* when the permission is denied too.
C5_UnsupportedDisabledOrHidden ==
    \A i \in Flagged :
        LET c == consoleCommands[i]
        IN (c.name \in DOMAIN commandToCapabilitiesPrivilegesMap
            /\ ~Supported(c.name))
               => /\ Privileged(c.name) => (c.helpDisabled /\ ~c.helpHidden)
                  /\ ~Privileged(c.name) => c.helpHidden

C5_Witness ==
    /\ Built
    /\ \E i, j \in Flagged :
          /\ consoleCommands[i].name = "get-file"
          /\ ~Supported("get-file") /\ Privileged("get-file")
          /\ consoleCommands[i].helpDisabled /\ ~consoleCommands[i].helpHidden
          /\ consoleCommands[j].name = "isolate"
          /\ ~Supported("isolate") /\ ~Privileged("isolate")
          /\ consoleCommands[j].helpHidden

Names(commands) == [i \in 1..Len(commands) |-> commands[i].name]

\* C6: the names in the registry and their order depend on the two feature
\* flags only: the six base commands, then get-file iff its flag is on, then
\* execute iff its flag is on; nothing is dropped for a missing capability
\* or permission, and no name occurs twice.
C6_NamesFollowFlagsOnly ==
    Built =>
        /\ Names(consoleCommands) =
               <<"isolate", "release", "kill-process", "suspend-process",
                 "status", "processes">>
               \o (IF experimentalFeatures.responseActionGetFileEnabled
                   THEN <<"get-file">> ELSE <<>>)
               \o (IF experimentalFeatures.responseActionExecuteEnabled
                   THEN <<"execute">> ELSE <<>>)
        /\ \A i, j \in 1..Len(consoleCommands) :
               i # j => consoleCommands[i].name # consoleCommands[j].name

C6_Witness ==
    /\ Built
    /\ endpointCapabilities = {}
    /\ \A p \in PrivilegeNames : ~endpointPrivileges[p]
    /\ Names(consoleCommands) =
           <<"isolate", "release", "kill-process", "suspend-process", "status",
             "processes", "execute">>

(***************************************************************************)
(* Properties of entered command lines (ArgumentsSpec)                     *)
(***************************************************************************)
Validated == parsedInput # Undefined
EnteredData(name) ==
    LET i == CHOOSE i \in 1..Len(parsedInput.args) :
                 parsedInput.args[i].name = name
    IN parsedInput.args[i].data
\* every entered argument was entered once
EnteredOnce ==
    \A i \in 1..Len(parsedInput.args) :
        Len(parsedInput.args[i].data.values) = 1

\* C8: a kill-process line that enters both pid and entityId is rejected;
\* a line that enters exactly one of them, with a valid value (and at most a
\* comment besides), is accepted.
C8_ExclusiveOrPidEntityId ==
    (Validated /\ parsedInput.name = "kill-process") =>
        LET entered == EnteredNames(parsedInput)
        IN /\ {"pid", "entityId"} \subseteq entered
               => argumentsResult # True
           /\ (/\ entered \in {{"pid"}, {"pid", "comment"}}
               /\ EnteredOnce
               /\ pidValidator(EnteredData("pid")) = True)
               => argumentsResult = True
           /\ (/\ entered \in {{"entityId"}, {"entityId", "comment"}}
               /\ EnteredOnce
               /\ emptyArgumentValidator(EnteredData("entityId")) = True)
               => argumentsResult = True

C8_Witness ==
    /\ Validated
    /\ parsedInput.name = "kill-process"
    /\ EnteredNames(parsedInput) = {"pid", "entityId"}
    /\ EnteredOnce
    /\ pidValidator(EnteredData("pid")) = True
    /\ emptyArgumentValidator(EnteredData("entityId")) = True
    /\ argumentsResult = Message(EXCLUSIVE_OR_ARGUMENTS)

(***************************************************************************)
(* Properties of the argument validators (ValidatorSpec)                   *)
(***************************************************************************)
OneString(s) == ArgData(<<StringValue(s)>>)
Rejected == ~validatorResult.isTrue /\ Len(validatorResult.text) > 0

\* the argument is one string that, read as a numeric literal, is an integer
\* greater than zero
DenotesPositiveInteger(a) ==
    /\ ~a.isUndefined
    /\ Len(a.values) = 1
    /\ a.values[1].type = "string"
    /\ IsInteger(StringToNumber(a.values[1].value))
    /\ IsPositive(StringToNumber(a.values[1].value))

\* the integer a denotes is at most 2^53 - 1
AtMostMaxSafe(a) ==
    LET n == StringToNumber(a.values[1].value)
    IN \/ Len(n.digits) + n.exp10 < Len(MaxSafeDigits)
       \/ /\ Len(n.digits) + n.exp10 = Len(MaxSafeDigits)
          /\ DigitsLE(n.digits \o Zeros(n.exp10), MaxSafeDigits)

PidExamples ==
    /\ argData = OneString(<<"1", "2", "3">>) => validatorResult = True
    /\ argData \in {OneString(<<"0">>), OneString(<<"-", "5">>),
                    OneString(<<>>), OneString(<<"a", "b", "c">>)}
           => Rejected

\* C9 as stated: the PID validator accepts exactly when the value denotes a
\* positive integer, accepts "123" and rejects "0", "-5", "" and "abc".
C9_AcceptsExactlyPositiveIntegers ==
    validatorName = "pidValidator" =>
        /\ validatorResult = True <=> DenotesPositiveInteger(argData)
        /\ PidExamples

\* C9: the PID validator accepts exactly when the value denotes a positive
\* integer of at most 2^53 - 1 (Number.MAX_SAFE_INTEGER), accepts "123" and
\* rejects "0", "-5", "" and "abc" with a message.
C9_AcceptsExactlyPositiveSafeIntegers ==
    validatorName = "pidValidator" =>
        /\ validatorResult = True
               <=> (DenotesPositiveInteger(argData) /\ AtMostMaxSafe(argData))
        /\ validatorResult # True => Rejected
        /\ PidExamples

C9_Witness ==
    /\ validatorName = "pidValidator"
    /\ argData = OneString(<<"1", "e", "1", "6">>)
    /\ DenotesPositiveInteger(argData)
    /\ validatorResult = Message(INVALID_PID)

\* C10: the execute timeout validator accepts exactly when the value, after
\* trimming, is a positive integer immediately followed by one of h, m, s;
\* it accepts "37m", "2s" and "4h" and rejects "37", "m37" and "".
C10_AcceptsExactlyDurations ==
    validatorName = "executeTimeoutValidator" =>
        /\ validatorResult = True
               <=> LET v == Trim(String(argData))
                       number == SubSeq(v, 1, Len(v) - 1)
                   IN /\ Len(v) >= 2
                      /\ v[Len(v)] \in {"h", "m", "s"}
                      /\ AllDigits(number)
                      /\ \E i \in 1..Len(number) : number[i] # "0"
        /\ validatorResult # True => Rejected
        /\ argData \in {OneString(<<"3", "7", "m">>), OneString(<<"2", "s">>),
                        OneString(<<"4", "h">>)}
               => validatorResult = True
        /\ argData \in {OneString(<<"3", "7">>), OneString(<<"m", "3", "7">>),
                        OneString(<<>>)}
               => Rejected

C10_Witness ==
    /\ validatorName = "executeTimeoutValidator"
    /\ argData = OneString(<<" ", "1", "m">>)
    /\ validatorResult = True

(***************************************************************************)
(* Properties of the console's checks together (ConsoleSpec)               *)
(***************************************************************************)
\* the argument has a first value that is a string with a character that is
\* not white space
HasNonBlankFirstString(a) ==
    /\ ~a.isUndefined
    /\ Len(a.values) >= 1
    /\ a.values[1].type = "string"
    /\ \E i \in 1..Len(a.values[1].value) : a.values[1].value[i] # " "

ArgumentsRejected == ~argumentsResult.isTrue /\ Len(argumentsResult.text) > 0

\* the required argument of a command that declares one
RequiredArgument(name) ==
    CASE name = "get-file" -> "path"
      [] name = "execute" -> "command"

\* C11: a get-file line without a path, or an execute line without a
\* command, or one whose value for it is empty or white space only, is
\* rejected with a message; and emptyArgumentValidator returns true exactly
\* when the argument's first value is a string with a character that is not
\* white space, and a message otherwise.
C11_RequiredArgumentsNonEmpty ==
    /\ (Validated /\ parsedInput.name \in {"get-file", "execute"}) =>
           LET required == RequiredArgument(parsedInput.name)
           IN (\/ required \notin EnteredNames(parsedInput)
               \/ ~HasNonBlankFirstString(EnteredData(required)))
                  => ArgumentsRejected
    /\ validatorName = "emptyArgumentValidator" =>
           /\ validatorResult = True <=> HasNonBlankFirstString(argData)
           /\ validatorResult # True
                  => validatorResult = Message(ARGUMENT_CANNOT_BE_EMPTY)

C11_Witness ==
    /\ Validated
    /\ parsedInput.name = "get-file"
    /\ EnteredNames(parsedInput) = {"path"}
    /\ EnteredData("path") = OneString(<<" ">>)
    /\ argumentsResult = Message(ARGUMENT_CANNOT_BE_EMPTY)

\* the definition of the entered command
EnteredDefinition ==
    LET i == CHOOSE i \in 1..Len(consoleCommands) :
                 consoleCommands[i].name = parsedInput.name
    IN consoleCommands[i]

\* the result of the entered argument at position i, checked on its own
OwnResult(i) ==
    validateArgument(ArgsOf(EnteredDefinition)[parsedInput.args[i].name],
                     parsedInput.args[i].data)

\* the positions of the entered arguments that are invalid on their own
FailingPositions ==
    {i \in 1..Len(parsedInput.args) : OwnResult(i) # True}

\* the command line passes the checks made before the arguments' values are
\* looked at
WellFormedLine ==
    argumentsResult \notin
        {Message(NO_ARGUMENTS_SUPPORTED), Message(UNKNOWN_ARGUMENT),
         Message(MISSING_REQUIRED_ARGUMENT), Message(EXCLUSIVE_OR_ARGUMENTS),
         Message(MISSING_ARGUMENTS)}

\* C12: one failure is reported: when several entered arguments are invalid
\* the result is the message of the first of them, one message and not a
\* list; and pidValidator makes the empty check first, so a pid that is
\* empty yields 'Argument cannot be empty' and not the invalid-PID message.
C12_FirstFailureOnly ==
    /\ (Validated /\ WellFormedLine /\ Cardinality(FailingPositions) >= 2) =>
           /\ argumentsResult =
                  OwnResult(CHOOSE i \in FailingPositions :
                                \A j \in FailingPositions : i <= j)
           /\ Len(argumentsResult.text) = 1
    /\ (validatorName = "pidValidator"
            /\ emptyArgumentValidator(argData) # True) =>
           validatorResult = Message(ARGUMENT_CANNOT_BE_EMPTY)
    /\ (/\ Validated
        /\ WellFormedLine
        /\ parsedInput.name \in {"kill-process", "suspend-process"}
        /\ "pid" \in EnteredNames(parsedInput)
        /\ Len(parsedInput.args) = 1
        /\ EnteredOnce
        /\ emptyArgumentValidator(EnteredData("pid")) # True) =>
           argumentsResult = Message(ARGUMENT_CANNOT_BE_EMPTY)

C12_Witness ==
    /\ Validated
    /\ parsedInput.name = "kill-process"
    /\ Len(parsedInput.args) = 2
    /\ parsedInput.args[1].name = "pid"
    /\ parsedInput.args[1].data = OneString(<<" ">>)
    /\ parsedInput.args[2].name = "comment"
    /\ Len(parsedInput.args[2].data.values) = 2
    /\ FailingPositions = {1, 2}
    /\ argumentsResult = Message(ARGUMENT_CANNOT_BE_EMPTY)

\* a result of type `true | string` that is a non-empty message
IsMessage(result) ==
    /\ DOMAIN result = {"isTrue", "text"}
    /\ ~result.isTrue
    /\ Len(result.text) > 0

\* the argument is missing, has no value, or has a first value that is not
\* a string
NoStringValue(a) ==
    \/ a.isUndefined
    \/ Len(a.values) = 0
    \/ a.values[1].type # "string"

\* C13: every check ends with a result: each argument validator returns
\* true or a non-empty message for every argument, a missing one, one
\* without values, one whose first value is not a string and one with
\* several values included; capabilitiesAndPrivilegesValidator returns true
\* or a non-empty message for every command that carries it; and a check
\* that fails returns a message, never true.
C13_ChecksNeverCrash ==
    /\ validatorName # "none" =>
           /\ validatorResult = True \/ IsMessage(validatorResult)
           /\ NoStringValue(argData) => IsMessage(validatorResult)
    /\ (Entered /\ "validate" \in DOMAIN enteredCommand.commandDefinition) =>
           /\ validateResult = True \/ IsMessage(validateResult)
           /\ ~(Supported(EnteredName) /\ Privileged(EnteredName))
                  => IsMessage(validateResult)
    /\ Validated => (argumentsResult = True \/ IsMessage(argumentsResult))

C13_Witness ==
    /\ validatorName = "pidValidator"
    /\ argData = UndefinedArgData
    /\ validatorResult = Message(ARGUMENT_CANNOT_BE_EMPTY)

(***************************************************************************)
(* Properties of the registry's help annotations (Spec)                    *)
(***************************************************************************)
\* the about text carries the upgrade-required text
UpgradeRequiredShown(about) ==
    \E i \in 1..Len(about) : <<about[i]>> = UPGRADE_REQUIRED_ABOUT

\* C19: for every descriptor of a command with a required capability,
\* get-file included, the about text was built with isSupported true exactly
\* when the host's list holds the command's own capability: the
\* upgrade-required text is shown exactly on the disabled commands, and a
\* command is disabled exactly when its own capability is absent.
C19_AboutFollowsOwnCapability ==
    \A i \in Flagged :
        LET c == consoleCommands[i]
        IN c.name \in DOMAIN commandToCapabilitiesPrivilegesMap =>
               /\ UpgradeRequiredShown(c.about) <=> c.helpDisabled
               /\ c.helpDisabled <=> ~Supported(c.name)

\* C20: for every session and every entered command that carries the
\* capability and privilege validator, the validator returns true exactly
\* when the command's descriptor is neither disabled nor hidden.
C20_AnnotationsAgreeWithValidator ==
    (Entered /\ "validate" \in DOMAIN enteredCommand.commandDefinition) =>
        (validateResult = True
             <=> /\ enteredCommand.commandDefinition.helpDisabled = FALSE
                 /\ enteredCommand.commandDefinition.helpHidden = FALSE)

C20_Witness ==
    /\ Entered
    /\ EnteredName = "execute"
    /\ enteredCommand.commandDefinition.helpDisabled
    /\ ~enteredCommand.commandDefinition.helpHidden
    /\ validateResult = Message(UPGRADE_ENDPOINT_FOR_RESPONDER)
    /\ experimentalFeatures.responseActionGetFileEnabled
    /\ \E c \in EndpointCapabilities : c \in endpointCapabilities

(***************************************************************************)
(* Properties of rule updates (RulesSpec)                                  *)
(***************************************************************************)
\* the stored rule with the rule id, among the stored rules `stored`
StoredRule(stored, ruleId) ==
    stored[CHOOSE i \in 1..Len(stored) : stored[i].rule_id = ruleId]

\* C14: a created rule and an installed prebuilt rule have revision 0, and
\* every update of a rule, mutable or immutable, an action attached or
\* removed, stores and returns the rule with its revision one higher.
C14_UpdateIncrementsRevision ==
    [][/\ ruleRequest'.op \in {"createRule", "getImmutableRule"} =>
              /\ ruleResponse'.revision = 0
              /\ StoredRule(rules', ruleRequest'.rule_id).revision = 0
       /\ ruleRequest'.op = "updateRule" =>
              LET before == StoredRule(rules, ruleRequest'.rule_id)
                  after == StoredRule(rules', ruleRequest'.rule_id)
              IN /\ after.revision = before.revision + 1
                 /\ ruleResponse'.revision = after.revision]_vars

C14_Witness ==
    /\ ruleRequest # Undefined
    /\ ruleRequest.op = "updateRule"
    /\ RuleIndex("rule-1") # {}
    /\ getRule("rule-1").revision = 2
    /\ RuleIndex(ELASTIC_SECURITY_RULE_ID) # {}
    /\ getRule(ELASTIC_SECURITY_RULE_ID).revision = 1
    /\ getRule(ELASTIC_SECURITY_RULE_ID).immutable

actionsProps == {"actions", "throttle"}

\* C15: the update that attaches a webhook action to the immutable rule
\* changes the rule's actions, throttle and revision and, server-generated
\* properties aside, nothing else; the rule stays immutable, no prebuilt
\* rule is reported as not installed, and the search by the immutable flag
\* finds exactly one rule with the rule id.
C15_ImmutableRuleKeepsProperties ==
    [][(/\ ruleRequest'.op = "updateRule"
        /\ ruleRequest'.rule_id = ELASTIC_SECURITY_RULE_ID) =>
           LET immutableRule == StoredRule(rules, ELASTIC_SECURITY_RULE_ID)
               found == SelectSeq(rules',
                            LAMBDA r : /\ r.rule_id = ELASTIC_SECURITY_RULE_ID
                                       /\ r.immutable)
           IN /\ omit(removeServerGeneratedProperties(ruleResponse'),
                      actionsProps \cup {"revision"})
                     = omit(removeServerGeneratedProperties(immutableRule),
                            actionsProps \cup {"revision"})
              /\ ruleResponse'.immutable
              /\ ruleResponse'.actions = ruleRequest'.body.actions
              /\ ruleResponse'.throttle = "rule"
              /\ Len(found) = 1
              /\ found[1] = ruleResponse'
              /\ \A id \in PrebuiltRuleIds :
                     \E i \in 1..Len(rules') :
                         rules'[i].rule_id = id /\ rules'[i].immutable]_vars

C15_Witness ==
    /\ ruleRequest # Undefined
    /\ ruleRequest.op = "updateRule"
    /\ ruleRequest.rule_id = ELASTIC_SECURITY_RULE_ID
    /\ ruleResponse.immutable
    /\ ruleResponse.enabled
    /\ ruleResponse.actions = <<WebHookAction("hook-1")>>
    /\ rules_not_installed = 0
    /\ Len(findImmutableRuleById(ELASTIC_SECURITY_RULE_ID)) = 1

\* C16: an update of the simple rule with its original definition, made
\* after a webhook action was attached, returns the simple rule's output
\* in every property that is not server-generated, the revision aside, and
\* with no actions.
C16_RemoveActionRoundTrip ==
    [][(/\ ruleRequest'.op = "updateRule"
        /\ ruleRequest'.body = getSimpleRule
        /\ StoredRule(rules, "rule-1").actions # <<>>) =>
           /\ omit(removeServerGeneratedProperties(ruleResponse'),
                   {"revision"})
                  = omit(getSimpleRuleOutput, {"revision"})
           /\ ruleResponse'.actions = <<>>
           /\ StoredRule(rules', "rule-1") = ruleResponse']_vars

C16_Witness ==
    /\ ruleRequest # Undefined
    /\ ruleRequest.op = "updateRule"
    /\ ruleRequest.body = getSimpleRule
    /\ removeServerGeneratedProperties(ruleResponse)
           = Merge(getSimpleRuleOutput, [revision |-> 2])

(***************************************************************************)
(* Properties of the policy editor (EditorSpec)                            *)
(***************************************************************************)
\* C17: with no process selector in the policy, a click on "add process
\* response" calls onChange not at all and leaves the policy as it is.
C17_NoProcessResponseWithoutSelector ==
    [][(/\ lastEvent'.target = "cloud-defend-btnAddResponse"
        /\ lastEvent'.text = "process"
        /\ \A i \in 1..Len(policy.selectors) :
               policy.selectors[i].type # "process") =>
           /\ onChangeCalls' = onChangeCalls
           /\ policy' = policy]_vars

C17_Witness ==
    /\ lastEvent = Event("click", "cloud-defend-btnAddResponse", 0, "process")
    /\ policy = testPolicy
    /\ onChangeCalls = 0

\* every selector a response names in match or exclude exists
NoDanglingSelector(p) ==
    \A r \in 1..Len(p.responses) :
        /\ \A k \in 1..Len(p.responses[r].match) :
               p.responses[r].match[k] \in SelectorNames(p)
        /\ \A k \in 1..Len(p.responses[r].exclude) :
               p.responses[r].exclude[k] \in SelectorNames(p)

\* C18: when a selector's name is changed, every response that named the
\* selector in its match list or its exclude list names it by the new name,
\* the other names stay, and no response names a selector that is not there.
C18_RenameUpdatesReferences ==
    [][lastEvent'.event = "type" =>
           LET i == lastEvent'.index
               oldName == policy.selectors[i].name
               newName == policy'.selectors[i].name
           IN /\ newName = oldName \o <<lastEvent'.text>>
              /\ Len(policy'.responses) = Len(policy.responses)
              /\ \A r \in 1..Len(policy.responses) :
                     /\ Len(policy'.responses[r].match)
                            = Len(policy.responses[r].match)
                     /\ Len(policy'.responses[r].exclude)
                            = Len(policy.responses[r].exclude)
                     /\ \A k \in 1..Len(policy.responses[r].match) :
                            policy'.responses[r].match[k] =
                                IF policy.responses[r].match[k] = oldName
                                THEN newName
                                ELSE policy.responses[r].match[k]
                     /\ \A k \in 1..Len(policy.responses[r].exclude) :
                            policy'.responses[r].exclude[k] =
                                IF policy.responses[r].exclude[k] = oldName
                                THEN newName
                                ELSE policy.responses[r].exclude[k]
              /\ NoDanglingSelector(policy')]_vars

C18_Witness ==
    /\ onChangeCalls = 2
    /\ Len(policy.selectors) = 3
    /\ policy.selectors[2].name = <<"nginxOnly", "2">>
    /\ policy.selectors[3].name = <<"excludeCustomNginxBuild", "3">>
    /\ policy.responses[1].match = <<(<<"nginxOnly", "2">>)>>
    /\ policy.responses[1].exclude = <<(<<"excludeCustomNginxBuild", "3">>)>>

(***************************************************************************)
(* Independence of the commands' gates (Spec)                              *)
(***************************************************************************)
\* the privilege flag a command's gate is to depend on: for isolate and
\* release the flags named outright, for the others the command map's
OwnPrivilege(name) ==
    CASE name = "isolate" -> "canIsolateHost"
      [] name = "release" -> "canUnIsolateHost"
      [] OTHER -> commandToCapabilitiesPrivilegesMap[name].privilege
OwnCapability(name) ==
    CASE name \in {"isolate", "release"} -> "isolation"
      [] OTHER -> commandToCapabilitiesPrivilegesMap[name].capability

\* the sessions that differ from this one in one privilege flag or in one
\* capability tag that is not the command's own; any two sessions that agree
\* on the command's own flag and tag are joined by a chain of such changes
OtherSessions(name) ==
    {[capabilities |-> endpointCapabilities,
      privileges |-> [endpointPrivileges EXCEPT ![q] = ~@]] :
         q \in PrivilegeNames \ {OwnPrivilege(name)}}
    \cup {[capabilities |-> IF c \in endpointCapabilities
                            THEN endpointCapabilities \ {c}
                            ELSE endpointCapabilities \cup {c},
           privileges |-> endpointPrivileges] :
              c \in EndpointCapabilities \ {OwnCapability(name)}}

\* the descriptor of the command in the registry of another session
DescriptorIn(session, name) ==
    LET commands == getEndpointConsoleCommands(
                        endpointAgentId, session.capabilities,
                        session.privileges)
    IN commands[CHOOSE i \in 1..Len(commands) : commands[i].name = name]

\* C21: the validator's result for a command and the command's helpDisabled
\* and helpHidden flags are the same in every session that agrees with this
\* one on the command's own privilege flag and own capability tag; isolate
\* does not depend on canUnIsolateHost nor release on canIsolateHost.
C21_DependsOnOwnFlagAndTagOnly ==
    EnteredMapped =>
        \A session \in OtherSessions(EnteredName) :
            LET other == DescriptorIn(session, EnteredName)
                this == enteredCommand.commandDefinition
            IN /\ capabilitiesAndPrivilegesValidator(
                      [commandDefinition |-> other]) = validateResult
               /\ other.helpDisabled = this.helpDisabled
               /\ other.helpHidden = this.helpHidden

C21_Witness ==
    /\ EnteredMapped
    /\ EnteredName = "isolate"
    /\ endpointPrivileges["canUnIsolateHost"]
    /\ ~endpointPrivileges["canIsolateHost"]
    /\ "isolation" \in endpointCapabilities
    /\ enteredCommand.commandDefinition.helpHidden
    /\ ~enteredCommand.commandDefinition.helpDisabled
    /\ validateResult = Message(INSUFFICIENT_PRIVILEGES_FOR_COMMAND)

(***************************************************************************)
(* Help ordering of the registry (Spec)                                    *)
(***************************************************************************)
\* C22: in the returned registry the commands of the response-actions help
\* group have pairwise distinct helpCommandPosition values, whatever the two
\* feature flags are.
C22_DistinctHelpCommandPositions ==
    \A i, j \in 1..Len(consoleCommands) :
        (/\ i # j
         /\ consoleCommands[i].helpGroupPosition
                = HELP_GROUPS.responseActions.position
         /\ consoleCommands[j].helpGroupPosition
                = HELP_GROUPS.responseActions.position)
            => consoleCommands[i].helpCommandPosition
                   # consoleCommands[j].helpCommandPosition

(***************************************************************************)
(* Commands without an entry in the command map (GateSpec)                 *)
(***************************************************************************)
Unmapped(name) == name \notin DOMAIN commandToCapabilitiesPrivilegesMap

\* C23: for a command name without an entry in the command map, status for
\* one, getRbacControl returns false and the validator returns the
\* upgrade-endpoint message followed by the insufficient-privileges message,
\* whatever the capabilities and privileges are; the status descriptor has
\* no validator and no helpDisabled or helpHidden flag, so entering status
\* runs no validator and nothing blocks it.
C23_UnmappedCommandsDenied ==
    /\ (gateCall # Undefined /\ Unmapped(gateCall.commandName)) =>
           /\ gateCall.function = "getRbacControl"
                  => gateCall.result = FALSE
           /\ gateCall.function = "capabilitiesAndPrivilegesValidator"
                  => gateCall.result =
                         Message(UPGRADE_ENDPOINT_FOR_RESPONDER
                                 \o INSUFFICIENT_PRIVILEGES_FOR_COMMAND)
    /\ \A i \in 1..Len(consoleCommands) :
           consoleCommands[i].name = "status" =>
               DOMAIN consoleCommands[i]
                   \cap {"validate", "helpDisabled", "helpHidden"} = {}
    /\ (Entered /\ EnteredName = "status") => validateResult = Undefined

C23_Witness ==
    /\ gateCall # Undefined
    /\ gateCall.function = "capabilitiesAndPrivilegesValidator"
    /\ gateCall.commandName = "status"
    /\ endpointCapabilities = EndpointCapabilities
    /\ \A p \in PrivilegeNames : endpointPrivileges[p]
    /\ gateCall.result = Message(UPGRADE_ENDPOINT_FOR_RESPONDER
                                 \o INSUFFICIENT_PRIVILEGES_FOR_COMMAND)

(***************************************************************************)
(* Properties of the SLO tags field (SloSpec)                              *)
(***************************************************************************)
Normalized(tag) == ToLowerCase(Trim(tag))

\* C24: from an empty tag list, after any create-tag operations and
\* selection changes, no two tags of the list are equal after trimming and
\* lower-casing, and no tag is empty after trimming.
C24_TagsDistinctAndNonEmpty ==
    /\ \A i, j \in 1..Len(tags.values) :
           i # j => Normalized(tags.values[i]) # Normalized(tags.values[j])
    /\ \A i \in 1..Len(tags.values) : Trim(tags.values[i]) # <<>>

C24_Witness ==
    /\ Len(tags.values) = 3
    /\ tags.values[1] = <<"A", " ">>
    /\ tags.values[3] = <<"B">>
    /\ tagsEvent.handler = "onChange"

\* C25: a create-tag operation whose value is empty after trimming, or
\* equals an existing tag after trimming and lower-casing both, does not
\* call field.onChange and leaves the list as it is; any other appends the
\* value as typed to the end of the previous list, an undefined list
\* counting as empty.
C25_CreateAppendsAsTyped ==
    [][tagsEvent'.handler = "onCreateOption" =>
           LET searchValue == tagsEvent'.argument
               previous == IF tags.isUndefined THEN <<>> ELSE tags.values
           IN IF \/ Trim(searchValue) = <<>>
                 \/ \E i \in 1..Len(previous) :
                        Normalized(previous[i]) = Normalized(searchValue)
              THEN ~tagsEvent'.called /\ tags' = tags
              ELSE /\ tagsEvent'.called
                   /\ tags' = TagsValue(previous \o <<searchValue>>)]_vars

C25_Witness ==
    /\ tagsEvent # Undefined
    /\ tagsEvent.handler = "onCreateOption"
    /\ tagsEvent.argument = <<" ", "a">>
    /\ tagsEvent.called
    /\ tags = TagsValue(<<(<<"B">>), <<"a", "B">>, <<" ", "a">>>>)

=============================================================================
